---- MODULE Spec2Model ----
(***************************************************************************)
(* A model of iiirs, an IIIF image server:                                 *)
(*   - the request grammar of src/api/image.rs (nom parsers),              *)
(*   - the crop / resize / rotate pipeline of src/image_ops.rs as driven   *)
(*     by get_image of src/main.rs,                                        *)
(*   - the proxy loader and its content-addressed cache of                 *)
(*     src/image_loader.rs, behind the per-prefix RwLock of src/main.rs.   *)
(* Text is a sequence of one-character strings.  A nom IResult is a record *)
(* [ok, val, rem]: ok = FALSE is Err, rem is the unconsumed input.         *)
(***************************************************************************)
EXTENDS Integers, Sequences, FiniteSets, TLC

VARIABLES
    probe,        \* what the client encoded into the request path
    input,        \* the request path handed to ImageRequest::from_str
    parsed,       \* Pending, or the Result of from_str(input)
    image,        \* width and height of the decoded source image
    req,          \* the parsed request the pipeline works on: region, size, rotation
    pipeline,     \* Pending, or the outcome of get_image's transform steps
    uri_to_hash_key, \* ProxyLoader: URI -> NotCached or (content hash, format)
    cache_files,  \* the cache directory: content hash -> NoFile or the file saved
    lock,         \* AppState.image_loaders: prefix -> the task holding its RwLock, 0 if free
    task,         \* the request tasks: where each is in get_image_data
    requests,     \* requests received so far
    restarts      \* process restarts so far

loader_vars == <<uri_to_hash_key, cache_files, lock, task, requests, restarts>>

vars == <<probe, input, parsed, image, req, pipeline, loader_vars>>

Pending == [state |-> "pending"]

(***************************************************************************)
(* Bounds of the model.                                                    *)
(***************************************************************************)
MaxInt == 11       \* integers written in request texts range over 0..MaxInt
MaxCoord == 3      \* region coordinates x, y, w, h in texts range over 0..MaxCoord
MaxDeg == 370      \* rotation numerals range over 0..MaxDeg
MaxDim == 4        \* image width and height range over 1..MaxDim
NumTasks == 2      \* concurrent request tasks
MaxRequests == 2   \* requests received in one behaviour
MaxRestarts == 1   \* process restarts in one behaviour

(***************************************************************************)
(* Text helpers.                                                           *)
(***************************************************************************)
DigitChars == <<"0", "1", "2", "3", "4", "5", "6", "7", "8", "9">>

IsDigit(c) == \E k \in 1..10 : DigitChars[k] = c

DigitVal(c) == (CHOOSE k \in 1..10 : DigitChars[k] = c) - 1

AlnumChars ==
    {"0", "1", "2", "3", "4", "5", "6", "7", "8", "9",
     "a", "b", "c", "d", "e", "f", "g", "h", "i", "j", "k", "l", "m", "n",
     "o", "p", "q", "r", "s", "t", "u", "v", "w", "x", "y", "z"}

RECURSIVE ToDigits(_)
\* u32's Display: decimal, no sign, no leading zeros
ToDigits(n) ==
    IF n < 10 THEN <<DigitChars[n + 1]>>
    ELSE ToDigits(n \div 10) \o <<DigitChars[(n % 10) + 1]>>

RECURSIVE FromDigits(_)
FromDigits(ds) ==
    IF ds = <<>> THEN 0
    ELSE FromDigits(SubSeq(ds, 1, Len(ds) - 1)) * 10 + DigitVal(ds[Len(ds)])

RECURSIVE StripZeros(_)
StripZeros(ds) ==
    IF Len(ds) > 1 /\ Head(ds) = "0" THEN StripZeros(Tail(ds)) ELSE ds

RECURSIVE LexGreater(_, _)
\* a > b for digit texts of equal length
LexGreater(a, b) ==
    IF a = <<>> THEN FALSE
    ELSE IF DigitVal(Head(a)) # DigitVal(Head(b))
         THEN DigitVal(Head(a)) > DigitVal(Head(b))
         ELSE LexGreater(Tail(a), Tail(b))

U32MaxDigits == <<"4", "2", "9", "4", "9", "6", "7", "2", "9", "5">>

\* whether a digit text is above u32::MAX (str::parse::<u32> then fails)
OverflowsU32(ds) ==
    LET s == StripZeros(ds) IN
    \/ Len(s) > Len(U32MaxDigits)
    \/ Len(s) = Len(U32MaxDigits) /\ LexGreater(s, U32MaxDigits)

StartsWith(i, t) == Len(i) >= Len(t) /\ SubSeq(i, 1, Len(t)) = t

Drop(i, n) == SubSeq(i, n + 1, Len(i))

(***************************************************************************)
(* nom combinators.                                                        *)
(***************************************************************************)
Err == [ok |-> FALSE]

Ok(v, r) == [ok |-> TRUE, val |-> v, rem |-> r]

tag(t, i) == IF StartsWith(i, t) THEN Ok(t, Drop(i, Len(t))) ELSE Err

RECURSIVE DigitPrefixLen(_)
DigitPrefixLen(i) ==
    IF i # <<>> /\ IsDigit(Head(i)) THEN 1 + DigitPrefixLen(Tail(i)) ELSE 0

digit0(i) ==
    LET n == DigitPrefixLen(i) IN Ok(SubSeq(i, 1, n), Drop(i, n))

digit1(i) ==
    LET n == DigitPrefixLen(i) IN
    IF n = 0 THEN Err ELSE Ok(SubSeq(i, 1, n), Drop(i, n))

RECURSIVE AlnumPrefixLen(_)
AlnumPrefixLen(i) ==
    IF i # <<>> /\ Head(i) \in AlnumChars THEN 1 + AlnumPrefixLen(Tail(i)) ELSE 0

alphanumeric1(i) ==
    LET n == AlnumPrefixLen(i) IN
    IF n = 0 THEN Err ELSE Ok(SubSeq(i, 1, n), Drop(i, n))

RECURSIVE IndexOf(_, _)
\* position of the first c in i, 0 when there is none
IndexOf(c, i) ==
    IF i = <<>> THEN 0
    ELSE IF Head(i) = c THEN 1
    ELSE LET k == IndexOf(c, Tail(i)) IN IF k = 0 THEN 0 ELSE k + 1

\* take_until1("/"): the non-empty text before the first "/"
take_until1_slash(i) ==
    LET k == IndexOf("/", i) IN
    IF k <= 1 THEN Err ELSE Ok(SubSeq(i, 1, k - 1), Drop(i, k - 1))

\* mutant: the leftover input is not looked at
all_consuming_lax(r) == r

\* all_consuming(p): p's result, an error when input is left over
all_consuming(r) == IF r.ok /\ r.rem = <<>> THEN r ELSE Err

(***************************************************************************)
(* The request grammar, src/api/image.rs.  Sequencing (tuples, preceded,   *)
(* terminated, separated_pair) is AndThen, alt is OrElse, map is Map.       *)
(***************************************************************************)
\* r, then k on r's result; Err as soon as one fails
AndThen(r, k(_)) == IF r.ok THEN k(r) ELSE Err

\* alt((r, other)): the first that succeeds
OrElse(r, other) == IF r.ok THEN r ELSE other

\* map(r, f)
Map(r, f(_)) == IF r.ok THEN Ok(f(r.val), r.rem) ELSE Err

T_comma == <<",">>
T_slash == <<"/">>
T_dot == <<".">>
T_full == <<"f", "u", "l", "l">>
T_square == <<"s", "q", "u", "a", "r", "e">>
T_max == <<"m", "a", "x">>
T_pct == <<"p", "c", "t", ":">>

\* terminated(p, tag("/")): p's result with the "/" after it consumed
terminated_slash(r) ==
    AndThen(r, LAMBDA p : Map(tag(T_slash, p.rem), LAMBDA v : p.val))

parse_identifier(i) == take_until1_slash(i)

\* An f32 is kept as the exact decimal it was written as: n / d with d a
\* power of ten and no trailing zero in the fraction.  The texts of the model
\* use only fractions an f32 holds exactly (.5, .25, .75).
RECURSIVE StripTrailingZeros(_)
StripTrailingZeros(ds) ==
    IF ds # <<>> /\ ds[Len(ds)] = "0"
    THEN StripTrailingZeros(SubSeq(ds, 1, Len(ds) - 1)) ELSE ds

RECURSIVE Pow10(_)
Pow10(k) == IF k = 0 THEN 1 ELSE 10 * Pow10(k - 1)

\* str::parse::<f32> of the text ip "." fp
FloatOf(ip, fp) ==
    [n |-> FromDigits(ip \o StripTrailingZeros(fp)),
     d |-> Pow10(Len(StripTrailingZeros(fp)))]

parse_iiif_float(i) ==
    OrElse(AndThen(digit0(i), LAMBDA a :
           AndThen(tag(T_dot, a.rem), LAMBDA dot :
           AndThen(digit1(dot.rem), LAMBDA b :
           Ok(FloatOf(a.val, b.val), b.rem)))),
           Map(digit1(i), LAMBDA ds : FloatOf(ds, <<>>)))

parse_unsigned(i) ==
    AndThen(digit1(i), LAMBDA d :
        IF OverflowsU32(d.val) THEN Err
        ELSE Ok(FromDigits(StripZeros(d.val)), d.rem))

\* mutant: zero is let through
parse_nonzerou32_zero_ok(i) == parse_unsigned(i)

parse_nonzerou32(i) ==
    AndThen(parse_unsigned(i), LAMBDA u : IF u.val # 0 THEN u ELSE Err)

\* preceded(tag(","), p) for p in {parse_iiif_float, parse_unsigned, parse_nonzerou32}
comma_float(i) == AndThen(tag(T_comma, i), LAMBDA t : parse_iiif_float(t.rem))

comma_unsigned(i) == AndThen(tag(T_comma, i), LAMBDA t : parse_unsigned(t.rem))

comma_nonzerou32(i) == AndThen(tag(T_comma, i), LAMBDA t : parse_nonzerou32(t.rem))

parse_float_quad(i) ==
    AndThen(parse_iiif_float(i), LAMBDA x :
    AndThen(comma_float(x.rem), LAMBDA y :
    AndThen(comma_float(y.rem), LAMBDA w :
    AndThen(comma_float(w.rem), LAMBDA h :
    Ok(<<x.val, y.val, w.val, h.val>>, h.rem)))))

parse_int_xywh(i) ==
    AndThen(parse_unsigned(i), LAMBDA x :
    AndThen(comma_unsigned(x.rem), LAMBDA y :
    AndThen(comma_nonzerou32(y.rem), LAMBDA w :
    AndThen(comma_nonzerou32(w.rem), LAMBDA h :
    Ok(<<x.val, y.val, w.val, h.val>>, h.rem)))))

RegionFull == [kind |-> "Full"]
RegionSquare == [kind |-> "Square"]
RegionAbsolute(x, y, w, h) == [kind |-> "Absolute", x |-> x, y |-> y, w |-> w, h |-> h]
\* the fields of Percent are named apart from Absolute's: they hold f32
RegionPercent(x, y, w, h) ==
    [kind |-> "Percent", px |-> x, py |-> y, pw |-> w, ph |-> h]

parse_region(i) ==
    OrElse(Map(tag(T_full, i), LAMBDA v : RegionFull),
    OrElse(Map(tag(T_square, i), LAMBDA v : RegionSquare),
    OrElse(AndThen(tag(T_pct, i), LAMBDA p :
                Map(parse_float_quad(p.rem),
                    LAMBDA q : RegionPercent(q[1], q[2], q[3], q[4]))),
           Map(parse_int_xywh(i),
               LAMBDA q : RegionAbsolute(q[1], q[2], q[3], q[4])))))

KindMax == [kind |-> "Max"]
KindWidth(w) == [kind |-> "Width", w |-> w]
KindHeight(h) == [kind |-> "Height", h |-> h]
KindPercent(p) == [kind |-> "Percent", pct |-> p]
KindWidthHeight(w, h) == [kind |-> "WidthHeight", w |-> w, h |-> h]

\* map(opt(tag(t)), |o| o.is_some())
opt_flag(r, i) == IF r.ok THEN Ok(TRUE, r.rem) ELSE Ok(FALSE, i)

parse_upscale(i) == opt_flag(tag(<<"^">>, i), i)

parse_maintain_ratio(i) == opt_flag(tag(<<"!">>, i), i)

parse_sizekind(i) ==
    OrElse(Map(tag(T_max, i), LAMBDA v : KindMax),
    OrElse(AndThen(parse_nonzerou32(i), LAMBDA w :
           AndThen(tag(T_comma, w.rem), LAMBDA sep :
           AndThen(parse_nonzerou32(sep.rem), LAMBDA h :
           Ok(KindWidthHeight(w.val, h.val), h.rem)))),
    OrElse(AndThen(parse_nonzerou32(i), LAMBDA n :
                Map(tag(T_comma, n.rem), LAMBDA v : KindHeight(n.val))),
    OrElse(Map(comma_nonzerou32(i), LAMBDA n : KindWidth(n)),
           AndThen(tag(T_pct, i), LAMBDA p :
                Map(parse_iiif_float(p.rem), LAMBDA f : KindPercent(f)))))))

\* nom's permutation((parse_upscale, parse_maintain_ratio)): in each round the
\* parsers that have not succeeded yet are tried in tuple order on the
\* current input, and the first to succeed consumes
permutation_flags(i) ==
    OrElse(AndThen(parse_upscale(i), LAMBDA u :
                AndThen(parse_maintain_ratio(u.rem), LAMBDA m :
                    Ok(<<u.val, m.val>>, m.rem))),
           AndThen(parse_maintain_ratio(i), LAMBDA m :
                AndThen(parse_upscale(m.rem), LAMBDA u :
                    Ok(<<u.val, m.val>>, u.rem))))

MkSize(up, ratio, kind) ==
    [allow_upscale |-> up, maintain_ratio |-> ratio, kind |-> kind]

parse_size(i) ==
    AndThen(permutation_flags(i), LAMBDA fl :
        Map(parse_sizekind(fl.rem), LAMBDA k : MkSize(fl.val[1], fl.val[2], k)))

parse_quality(i) ==
    OrElse(Map(tag(<<"c", "o", "l", "o", "r">>, i), LAMBDA v : "Color"),
    OrElse(Map(tag(<<"g", "r", "a", "y">>, i), LAMBDA v : "Gray"),
    OrElse(Map(tag(<<"b", "i", "t", "o", "n", "a", "l">>, i), LAMBDA v : "Bitonal"),
           Map(tag(<<"d", "e", "f", "a", "u", "l", "t">>, i), LAMBDA v : "Default"))))

\* mutant: any numeral that is a multiple of 90 is read as degrees
parse_rotation_deg_numeric(i) ==
    AndThen(parse_unsigned(i), LAMBDA u :
        IF u.val % 90 = 0
        THEN Ok(<<"Deg0", "Deg90", "Deg180", "Deg270">>[((u.val % 360) \div 90) + 1],
                u.rem)
        ELSE Err)

parse_rotation_deg(i) ==
    OrElse(Map(OrElse(tag(<<"0">>, i), tag(<<"3", "6", "0">>, i)), LAMBDA v : "Deg0"),
    OrElse(Map(tag(<<"9", "0">>, i), LAMBDA v : "Deg90"),
    OrElse(Map(tag(<<"1", "8", "0">>, i), LAMBDA v : "Deg180"),
           Map(tag(<<"2", "7", "0">>, i), LAMBDA v : "Deg270"))))

MkRotation(deg, mirror) == [deg |-> deg, mirror |-> mirror]

\* (opt(tag("!")), parse_rotation_deg)
parse_rotation(i) ==
    AndThen(opt_flag(tag(<<"!">>, i), i), LAMBDA m :
        Map(parse_rotation_deg(m.rem), LAMBDA deg : MkRotation(deg, m.val)))

\* ImageFormat::from_extension on the extensions the model's texts use
FormatOfExtension(ext) ==
    CASE ext = <<"j", "p", "g">> -> "Jpeg"
      [] ext = <<"j", "p", "e", "g">> -> "Jpeg"
      [] ext = <<"p", "n", "g">> -> "Png"
      [] ext = <<"g", "i", "f">> -> "Gif"
      [] ext = <<"t", "i", "f">> -> "Tiff"
      [] ext = <<"t", "i", "f", "f">> -> "Tiff"
      [] ext = <<"b", "m", "p">> -> "Bmp"
      [] OTHER -> "None"

\* map_res(alphanumeric1, from_extension(..).ok_or(..))
known_format(a) == IF a.val # "None" THEN a ELSE Err

parse_format(i) ==
    AndThen(Map(alphanumeric1(i), LAMBDA ext : FormatOfExtension(ext)),
            LAMBDA a : known_format(a))

\* separated_pair(parse_quality, tag("."), parse_format)
parse_quality_format(i) ==
    AndThen(parse_quality(i), LAMBDA q :
    AndThen(tag(T_dot, q.rem), LAMBDA dot :
        Map(parse_format(dot.rem), LAMBDA f : <<q.val, f>>)))

parse_image_request(i) ==
    AndThen(terminated_slash(parse_identifier(i)), LAMBDA identifier :
    AndThen(terminated_slash(parse_region(identifier.rem)), LAMBDA region :
    AndThen(terminated_slash(parse_size(region.rem)), LAMBDA size :
    AndThen(terminated_slash(parse_rotation(size.rem)), LAMBDA rotation :
        Map(all_consuming(parse_quality_format(rotation.rem)), LAMBDA qf :
            [identifier |-> identifier.val, region |-> region.val,
             size |-> size.val, rotation |-> rotation.val,
             quality |-> qf[1], format |-> qf[2]])))))

\* ImageRequest::from_str: finish() keeps the value and drops the remainder
drop_rem(r) == [ok |-> TRUE, val |-> r.val]

from_str(s) == AndThen(parse_image_request(s), LAMBDA r : drop_rem(r))

(***************************************************************************)
(* The transform pipeline, src/image_ops.rs.  An image is its width and    *)
(* height.  A u32 is kept as the integer with the same 32 bits read as an  *)
(* i32, so a wrapped subtraction is a negative number and the comparisons  *)
(* of u32 are ULt and UMin.                                                *)
(***************************************************************************)
Img(w, h) == [w |-> w, h |-> h]

ULt(a, b) == IF (a < 0) = (b < 0) THEN a < b ELSE b < 0

UMin(a, b) == IF ULt(b, a) THEN b ELSE a

\* (int * pct / 100.0).round() as u32, for the exact decimal pct = n / d
scale_by_pct(int, pct) == (2 * int * pct.n + 100 * pct.d) \div (200 * pct.d)

PanicRect == [panic |-> TRUE, x |-> 0, y |-> 0, w |-> 0, h |-> 0]

Rect(x, y, w, h) == [panic |-> FALSE, x |-> x, y |-> y, w |-> w, h |-> h]

\* the rectangle crop_image hands to DynamicImage::crop; the subtraction of
\* the Square arm overflows when half a side is longer than the short side:
\* a panic with overflow checks on, a wrapped u32 with them off
crop_rect(img, region, checks) ==
    CASE region.kind = "Square" ->
            LET sq_width == IF img.w < img.h THEN img.w ELSE img.h
                y == sq_width - img.h \div 2
                x == sq_width - img.w \div 2
            IN  IF checks /\ (x < 0 \/ y < 0) THEN PanicRect
                ELSE Rect(x, y, sq_width, sq_width)
      [] region.kind = "Absolute" -> Rect(region.x, region.y, region.w, region.h)
      [] region.kind = "Percent" ->
            Rect(scale_by_pct(img.w, region.px), scale_by_pct(img.h, region.py),
                 scale_by_pct(img.w, region.pw), scale_by_pct(img.h, region.ph))

\* DynamicImage::crop of the image crate: the rectangle is clamped to the
\* image (imageops::crop_dimms) and the sub-image copied out
crop_dimms(img, r) ==
    LET x == UMin(r.x, img.w)
        y == UMin(r.y, img.h)
        height == UMin(r.h, img.h - y)
        width == UMin(r.w, img.w - x)
    IN  Rect(x, y, width, height)

\* crop_image: [panic, rect (asked of the crate), got (cut out), img]
crop_image(img, region, checks) ==
    IF region.kind = "Full"
    THEN [panic |-> FALSE, rect |-> Rect(0, 0, img.w, img.h),
          got |-> Rect(0, 0, img.w, img.h), img |-> img]
    ELSE LET r == crop_rect(img, region, checks) IN
         IF r.panic
         THEN [panic |-> TRUE, rect |-> r, got |-> r, img |-> img]
         ELSE LET g == crop_dimms(img, r) IN
              [panic |-> FALSE, rect |-> r, got |-> g, img |-> Img(g.w, g.h)]

\* the (nw, nh) resize_image computes from the size kind
resize_target(img, kind) ==
    CASE kind.kind = "Max" -> <<img.w, img.h>>
      [] kind.kind = "Width" -> <<kind.w, img.h>>
      [] kind.kind = "Height" -> <<img.w, kind.h>>
      [] kind.kind = "Percent" ->
            <<scale_by_pct(img.w, kind.pct), scale_by_pct(img.h, kind.pct)>>
      [] kind.kind = "WidthHeight" -> <<kind.w, kind.h>>

\* round(a / b) for a >= 0, b > 0
RoundDiv(a, b) == (2 * a + b) \div (2 * b)

Max1(n) == IF n < 1 THEN 1 ELSE n

\* DynamicImage::resize of the image crate keeps the aspect ratio: the
\* image is scaled by the smaller of nw / w and nh / h, each side at least 1
resize_dimensions(img, nw, nh) ==
    IF img.w = 0 /\ img.h = 0 THEN <<1, 1>>
    ELSE IF img.w = 0 THEN <<1, Max1(nh)>>
    ELSE IF img.h = 0 THEN <<Max1(nw), 1>>
    ELSE IF nw * img.h <= nh * img.w
         THEN <<Max1(nw), Max1(RoundDiv(img.h * nw, img.w))>>
         ELSE <<Max1(RoundDiv(img.w * nh, img.h)), Max1(nh)>>

\* mutant: refused only when both sides grow
upscale_rejected_both(img, size, nw, nh) ==
    ~size.allow_upscale /\ ULt(img.w, nw) /\ ULt(img.h, nh)

\* the test of line 52: && binds tighter than ||
upscale_rejected(img, size, nw, nh) ==
    (~size.allow_upscale /\ ULt(img.w, nw)) \/ ULt(img.h, nh)

\* resize_image: [ok, nw, nh (the target computed), img]
resize_image(img, size) ==
    LET t == resize_target(img, size.kind)
        nw == t[1]
        nh == t[2]
    IN  IF size.kind.kind = "Max"
        THEN [ok |-> TRUE, nw |-> nw, nh |-> nh, img |-> img]
        ELSE IF upscale_rejected(img, size, nw, nh)
        THEN [ok |-> FALSE, nw |-> nw, nh |-> nh, img |-> img]
        ELSE IF size.maintain_ratio
        THEN LET d == resize_dimensions(img, nw, nh) IN
             [ok |-> TRUE, nw |-> nw, nh |-> nh, img |-> Img(d[1], d[2])]
        ELSE [ok |-> TRUE, nw |-> nw, nh |-> nh, img |-> Img(nw, nh)]

\* the orientations rotate_image applies, in order
rotate_orientations(rotation) ==
    CASE rotation.deg = "Deg0" ->
            IF rotation.mirror THEN <<"FlipHorizontal">> ELSE <<>>
      [] rotation.deg = "Deg90" ->
            (IF rotation.mirror THEN <<"FlipHorizontal">> ELSE <<>>) \o <<"Rotate90">>
      [] rotation.deg = "Deg180" ->
            IF rotation.mirror THEN <<"FlipVertical">> ELSE <<"Rotate180">>
      [] rotation.deg = "Deg270" ->
            (IF rotation.mirror THEN <<"FlipHorizontal">> ELSE <<>>) \o <<"Rotate270">>

\* rotate_image: a quarter turn swaps width and height
rotate_image(img, rotation) ==
    IF rotation.deg \in {"Deg90", "Deg270"} THEN Img(img.h, img.w) ELSE img

DefaultRegion == RegionFull
DefaultSize == MkSize(FALSE, FALSE, KindMax)
DefaultRotation == MkRotation("Deg0", FALSE)

\* mutant: the size is applied to the image as loaded, the region after it
get_image_transform_resize_first(img, r, checks) ==
    LET z == resize_image(img, IF r.size # DefaultSize THEN r.size ELSE DefaultSize)
        c == crop_image(z.img, IF r.region # DefaultRegion THEN r.region ELSE RegionFull,
                        checks)
        live == z.ok /\ ~c.panic
    IN  [status |-> IF ~z.ok THEN "BadRequest" ELSE IF c.panic THEN "Panic" ELSE "Encode",
         crop |-> c, resize |-> z,
         out |-> IF live /\ r.rotation # DefaultRotation
                 THEN rotate_image(c.img, r.rotation) ELSE c.img,
         orientations |-> IF live /\ r.rotation # DefaultRotation
                          THEN rotate_orientations(r.rotation) ELSE <<>>,
         steps |-> (IF r.size # DefaultSize THEN <<"resize">> ELSE <<>>)
                   \o (IF z.ok /\ r.region # DefaultRegion THEN <<"crop">> ELSE <<>>)
                   \o (IF live /\ r.rotation # DefaultRotation THEN <<"rotate">> ELSE <<>>)
                   \o (IF live THEN <<"encode">> ELSE <<>>)]

\* The transform steps of get_image (src/main.rs): crop, resize and rotate,
\* each skipped for the default value of its parameter, then the encoding.
\* status: "Panic", "BadRequest", or "Encode" when write_to was reached.
get_image_transform(img, r, checks) ==
    LET c == IF r.region # DefaultRegion THEN crop_image(img, r.region, checks)
             ELSE crop_image(img, RegionFull, checks)
        z == IF ~c.panic /\ r.size # DefaultSize THEN resize_image(c.img, r.size)
             ELSE resize_image(c.img, DefaultSize)
        o == IF r.rotation # DefaultRotation THEN rotate_image(z.img, r.rotation)
             ELSE z.img
        steps == (IF r.region # DefaultRegion THEN <<"crop">> ELSE <<>>)
                 \o (IF ~c.panic /\ r.size # DefaultSize THEN <<"resize">> ELSE <<>>)
                 \o (IF ~c.panic /\ z.ok /\ r.rotation # DefaultRotation
                     THEN <<"rotate">> ELSE <<>>)
                 \o (IF ~c.panic /\ z.ok THEN <<"encode">> ELSE <<>>)
    IN  [status |-> IF c.panic THEN "Panic"
                    ELSE IF ~z.ok THEN "BadRequest" ELSE "Encode",
         crop |-> c, resize |-> z, out |-> IF ~c.panic /\ z.ok THEN o ELSE c.img,
         orientations |-> IF ~c.panic /\ z.ok /\ r.rotation # DefaultRotation
                          THEN rotate_orientations(r.rotation) ELSE <<>>,
         steps |-> steps]

(***************************************************************************)
(* The image loaders, src/image_loader.rs, behind get_image_data of        *)
(* src/main.rs.  A decoded image is named by its pixel content; a remote   *)
(* URI serves one content in one format.                                   *)
(***************************************************************************)
Tasks == 1..NumTasks

\* main: the prefixes of AppState.image_loaders
LoaderPrefixes == {"test", "proxy"}

URIs == {"u1", "u2", "u3"}

\* what the origin serves: u1 and u2 decode to the same pixels
Remote(u) ==
    CASE u = "u1" -> [content |-> "A", format |-> "Png"]
      [] u = "u2" -> [content |-> "A", format |-> "Jpeg"]
      [] u = "u3" -> [content |-> "B", format |-> "Png"]

\* Sha256 over image.as_bytes(), the decoded pixels
Sha256(content) == CASE content = "A" -> "hashA" [] content = "B" -> "hashB"

Hashes == {"hashA", "hashB"}

\* identifiers of the proxy prefix: the base64url of a URI, the same with
\* padding, and a text that is no base64url
ProxyIdentifiers == {"b64_u1", "b64_u1=", "b64_u2", "b64_u3", "not_b64"}

\* identifier.trim_end_matches('=') then Base64UrlUnpadded::decode_vec and
\* String::from_utf8: the URI, or "InvalidInput"
DecodeIdentifier(id) ==
    CASE id \in {"b64_u1", "b64_u1="} -> "u1"
      [] id = "b64_u2" -> "u2"
      [] id = "b64_u3" -> "u3"
      [] OTHER -> "InvalidInput"

\* identifiers of the local prefix: files under the image directory
LocalIdentifiers == {"present", "missing"}

NotCached == [cached |-> FALSE, key |-> "", format |-> ""]
Cached(key, format) == [cached |-> TRUE, key |-> key, format |-> format]

NoFile == [exists |-> FALSE, content |-> "", format |-> ""]
File(content, format) == [exists |-> TRUE, content |-> content, format |-> format]

\* the content of a file that save_with_format began and did not finish
Torn == "torn"

\* what the outbound GET can come to
FetchOutcomes == {"ok", "status_not_ok", "send_error", "no_format", "bad_body"}

\* what create_dir_all and save_with_format can come to in write_in_cache
DiskOutcomes == {"ok", "mkdir_error", "save_error"}

IdleTask ==
    [pc |-> "idle", prefix |-> "", identifier |-> "", uri |-> "",
     hit |-> FALSE, existed |-> FALSE, fetch |-> "", result |-> "", content |-> ""]

LoaderIdle ==
    /\ uri_to_hash_key = [u \in URIs |-> NotCached]
    /\ cache_files = [k \in Hashes |-> NoFile]
    /\ lock = [p \in LoaderPrefixes |-> 0]
    /\ task = [t \in Tasks |-> IdleTask]
    /\ requests = 0
    /\ restarts = 0

\* get_image_data's map_err: the status for an io::ErrorKind; a panic
\* unwinds through it
StatusOfErrorKind(kind) ==
    CASE kind = "NotFound" -> "NOT_FOUND"
      [] kind = "InvalidInput" -> "BAD_REQUEST"
      [] kind = "Panic" -> "PANIC"
      [] OTHER -> "INTERNAL_SERVER_ERROR"

\* LocalLoader::get_image: Ok, or the error of ImageReader::open
local_get_image(identifier) ==
    IF identifier = "present" THEN [ok |-> TRUE, kind |-> "", content |-> "L"]
    ELSE [ok |-> FALSE, kind |-> "NotFound", content |-> ""]

\* ProxyLoader::get_from_cache: Some(image) when the file opens and decodes
\* in the format of the entry, None when it does not open, a panic when it
\* opens and does not decode
get_from_cache(files, entry) ==
    IF ~files[entry.key].exists
    THEN [some |-> FALSE, panic |-> FALSE, content |-> ""]
    ELSE IF files[entry.key].content = Torn \/ files[entry.key].format # entry.format
    THEN [some |-> FALSE, panic |-> TRUE, content |-> ""]
    ELSE [some |-> TRUE, panic |-> FALSE, content |-> files[entry.key].content]

\* mutant: the file at the cache path is written over
write_in_cache_overwrite(files, index, content, uri, format, io) ==
    [ok |-> TRUE, kind |-> "",
     files |-> [files EXCEPT ![Sha256(content)] = File(content, format)],
     index |-> [index EXCEPT ![uri] = Cached(Sha256(content), format)]]

\* mutant: the URI is inserted before the file is saved
write_in_cache_insert_first(files, index, content, uri, format, io) ==
    IF files[Sha256(content)].exists
    THEN [ok |-> FALSE, kind |-> "AlreadyExists", files |-> files, index |-> index]
    ELSE [ok |-> io = "ok", kind |-> IF io = "ok" THEN "" ELSE "Panic",
          files |-> [files EXCEPT ![Sha256(content)] =
                        File(IF io = "ok" THEN content ELSE Torn, format)],
          index |-> [index EXCEPT ![uri] = Cached(Sha256(content), format)]]

\* ProxyLoader::write_in_cache: [ok, kind, files, index] after the call;
\* kind "Panic" is the unwrap() of save_with_format, which leaves what was
\* written of the file
write_in_cache(files, index, content, uri, format, io) ==
    LET content_hash == Sha256(content) IN
    IF files[content_hash].exists
    THEN [ok |-> FALSE, kind |-> "AlreadyExists", files |-> files, index |-> index]
    ELSE IF io = "mkdir_error"
    THEN [ok |-> FALSE, kind |-> "PermissionDenied", files |-> files, index |-> index]
    ELSE IF io = "save_error"
    THEN [ok |-> FALSE, kind |-> "Panic",
          files |-> [files EXCEPT ![content_hash] = File(Torn, format)],
          index |-> index]
    ELSE [ok |-> TRUE, kind |-> "",
          files |-> [files EXCEPT ![content_hash] = File(content, format)],
          index |-> [index EXCEPT ![uri] = Cached(content_hash, format)]]

(***************************************************************************)
(* Request texts.  A probe says which segment of the path is varied and    *)
(* how; the other segments are those of id/full/max/0/default.jpg.         *)
(***************************************************************************)
T_id == <<"i", "d">>
T_default_jpg == <<"d", "e", "f", "a", "u", "l", "t", ".", "j", "p", "g">>

\* numbers written in size and rotation-independent texts
IntVals == (0..MaxInt) \cup {150}

\* region coordinates: small values, several digits, and i32::MAX
CoordVals == (0..MaxCoord) \cup {10, 105, 2147483647}

\* decimal texts whose value an f32 holds exactly
PctTexts ==
    <<  <<"0">>, <<"5", "0">>, <<"1", "0", "0">>, <<"1", "2", ".", "5">>,
        <<".", "5">>, <<"1", "5", "0">>, <<"2", "5", ".", "0">> >>

FlagTexts == {<<>>, <<"^">>, <<"!">>, <<"^", "!">>, <<"!", "^">>, <<"^", "^">>}

JunkTexts == {<<>>, <<"x">>, <<"1">>, <<",", "1">>}

RotationPrefixes == {<<>>, <<"!">>, <<"-">>, <<"+">>, <<"!", "!">>}

RotationJunk == {<<>>, <<"x">>, <<"0">>, <<".", "0">>}

QualityTexts ==
    <<  <<"c", "o", "l", "o", "r">>, <<"g", "r", "a", "y">>,
        <<"b", "i", "t", "o", "n", "a", "l">>,
        <<"d", "e", "f", "a", "u", "l", "t">>,
        <<"c", "o", "l", "o", "u", "r">>, <<>> >>

FormatTexts ==
    <<  <<"j", "p", "g">>, <<"j", "p", "e", "g">>, <<"p", "n", "g">>,
        <<"t", "i", "f">>, <<"x", "y", "z">>, <<"j", "p", "g", "x">>, <<>> >>

TailJunk == {<<>>, <<"/">>, <<"/", "x">>, <<".", "j", "p", "g">>, <<" ">>}

IdTexts == <<T_id, <<"a">>, <<>>, <<"a", "/", "b">> >>

MkProbe(family, form, pre, x, y, w, h, junk) ==
    [family |-> family, form |-> form, pre |-> pre,
     x |-> x, y |-> y, w |-> w, h |-> h, junk |-> junk]

RegionProbes ==
    {MkProbe("region", f, <<>>, 0, 0, 0, 0, j) :
        f \in {"full", "square"}, j \in JunkTexts}
    \cup {MkProbe("region", "abs", <<>>, x, y, w, h, <<>>) :
            x \in CoordVals, y \in CoordVals, w \in CoordVals, h \in CoordVals}
    \cup {MkProbe("region", "abs", <<>>, x, 1, w, 2, j) :
            x \in CoordVals, w \in CoordVals, j \in JunkTexts}
    \cup {MkProbe("region", "pct", <<>>, x, 1, w, h, j) :
            x \in 1..Len(PctTexts), w \in 1..Len(PctTexts), h \in {1, 4},
            j \in JunkTexts}

SizeProbes ==
    {MkProbe("size", "max", p, 0, 0, 0, 0, j) : p \in FlagTexts, j \in JunkTexts}
    \cup {MkProbe("size", f, p, 0, 0, w, 0, j) :
            f \in {"w,", ",h"}, p \in FlagTexts, w \in IntVals, j \in JunkTexts}
    \cup {MkProbe("size", "w,h", p, 0, 0, w, h, <<>>) :
            p \in FlagTexts, w \in IntVals, h \in IntVals}
    \cup {MkProbe("size", "pct", p, 0, 0, w, 0, j) :
            p \in FlagTexts, w \in 1..Len(PctTexts), j \in JunkTexts}

RotationProbes ==
    {MkProbe("rotation", "deg", p, 0, 0, n, 0, j) :
        p \in RotationPrefixes, n \in 0..MaxDeg, j \in RotationJunk}
    \cup {MkProbe("rotation", "word", <<>>, 0, 0, 0, 0, j) :
            j \in {<<>>, <<"f", "l", "i", "p">>}}

TailProbes ==
    {MkProbe("tail", "q.f", <<>>, q, f, 0, 0, j) :
        q \in 1..Len(QualityTexts), f \in 1..Len(FormatTexts), j \in TailJunk}
    \cup {MkProbe("tail", "id", <<>>, k, 0, 0, 0, <<>>) : k \in 1..Len(IdTexts)}

Probes == RegionProbes \cup SizeProbes \cup RotationProbes \cup TailProbes

Comma == T_comma

AbsText(x, y, w, h) ==
    ToDigits(x) \o Comma \o ToDigits(y) \o Comma \o ToDigits(w) \o Comma \o ToDigits(h)

RegionText(p) ==
    (CASE p.form = "full" -> T_full
       [] p.form = "square" -> T_square
       [] p.form = "abs" -> AbsText(p.x, p.y, p.w, p.h)
       [] p.form = "pct" ->
            T_pct \o PctTexts[p.x] \o Comma \o PctTexts[p.y] \o Comma
                  \o PctTexts[p.w] \o Comma \o PctTexts[p.h])
    \o p.junk

SizeKindText(p) ==
    CASE p.form = "max" -> T_max
      [] p.form = "w," -> ToDigits(p.w) \o Comma
      [] p.form = ",h" -> Comma \o ToDigits(p.w)
      [] p.form = "w,h" -> ToDigits(p.w) \o Comma \o ToDigits(p.h)
      [] p.form = "pct" -> T_pct \o PctTexts[p.w]

SizeText(p) == p.pre \o SizeKindText(p) \o p.junk

RotationText(p) ==
    IF p.form = "deg" THEN p.pre \o ToDigits(p.w) \o p.junk ELSE p.junk

Slash == T_slash

Path(id, region, size, rotation, tail) ==
    id \o Slash \o region \o Slash \o size \o Slash \o rotation \o Slash \o tail

TextOf(p) ==
    CASE p.family = "region" -> Path(T_id, RegionText(p), T_max, <<"0">>, T_default_jpg)
      [] p.family = "size" -> Path(T_id, T_full, SizeText(p), <<"0">>, T_default_jpg)
      [] p.family = "rotation" ->
            Path(T_id, T_full, T_max, RotationText(p), T_default_jpg)
      [] p.family = "tail" /\ p.form = "q.f" ->
            Path(T_id, T_full, T_max, <<"0">>,
                 QualityTexts[p.x] \o <<".">> \o FormatTexts[p.y] \o p.junk)
      [] p.family = "tail" /\ p.form = "id" ->
            Path(IdTexts[p.x], T_full, T_max, <<"0">>, T_default_jpg)

(***************************************************************************)
(* The parser as a state machine: a request path arrives and               *)
(* ImageRequest::from_str is applied to it (get_image, src/main.rs).       *)
(***************************************************************************)
NoProbe == MkProbe("none", "none", <<>>, 0, 0, 0, 0, <<>>)
NoImage == [w |-> 0, h |-> 0]
NoReq == [state |-> "none"]

InitParse ==
    /\ probe \in Probes
    /\ input = TextOf(probe)
    /\ parsed = Pending
    /\ image = NoImage
    /\ req = NoReq
    /\ pipeline = Pending
    /\ LoaderIdle

FromStr ==
    /\ probe.family # "none"
    /\ parsed = Pending
    /\ parsed' = from_str(input)
    /\ UNCHANGED <<probe, input, image, req, pipeline, loader_vars>>

NextParse == FromStr

SpecParse == InitParse /\ [][NextParse]_vars

(***************************************************************************)
(* Claims about the grammar, checked under SpecParse.                      *)
(***************************************************************************)
Done == parsed # Pending

\* the text consumed whole by a production
FullyConsumed(r) == r.ok /\ r.rem = <<>>

RECURSIVE SplitSlash(_)
\* the segments of a path between its "/"
SplitSlash(i) ==
    LET k == IndexOf("/", i) IN
    IF k = 0 THEN <<i>>
    ELSE <<SubSeq(i, 1, k - 1)>> \o SplitSlash(Drop(i, k))

\* C1: for every positive n the size text "n," parses to Width(n) and the
\* size text ",n" parses to Height(n).
C1_CommaPlacement ==
    (Done /\ probe.family = "size" /\ probe.pre = <<>> /\ probe.junk = <<>>
          /\ probe.w > 0)
    => /\ probe.form = "w," =>
            parsed.ok /\ parsed.val.size.kind = KindWidth(probe.w)
       /\ probe.form = ",h" =>
            parsed.ok /\ parsed.val.size.kind = KindHeight(probe.w)

\* the request id/full/150,/0/default.jpg has been parsed
C1_Witness ==
    /\ Done
    /\ input = Path(T_id, T_full, <<"1", "5", "0", ",">>, <<"0">>, T_default_jpg)
    /\ parsed.ok
    /\ parsed.val.size.kind = KindHeight(150)

\* the size kind a text denotes, when it denotes one
KindOfText(t) == parse_sizekind(t)

\* C2: the flags ^ and ! are independent and may come in either order: for
\* every size kind k, ^!k and !^k parse with both flags set, ^k sets only
\* allow_upscale and !k sets only maintain_ratio.
C2_FlagsEitherOrder ==
    (Done /\ probe.family = "size" /\ probe.junk = <<>>
          /\ FullyConsumed(KindOfText(SizeKindText(probe))))
    => LET k == KindOfText(SizeKindText(probe)).val IN
       /\ probe.pre \in {<<"^", "!">>, <<"!", "^">>} =>
            parsed.ok /\ parsed.val.size = MkSize(TRUE, TRUE, k)
       /\ probe.pre = <<"^">> => parsed.ok /\ parsed.val.size = MkSize(TRUE, FALSE, k)
       /\ probe.pre = <<"!">> => parsed.ok /\ parsed.val.size = MkSize(FALSE, TRUE, k)

\* a size text with the flags in the order !^ has been rejected
C2_Witness ==
    /\ Done
    /\ probe.family = "size" /\ probe.pre = <<"!", "^">> /\ probe.form = "max"
    /\ probe.junk = <<>>
    /\ ~parsed.ok

\* C3: from_str succeeds only if the whole input is consumed as
\* identifier/region/size/rotation/quality.format: a successful parse has
\* exactly five segments, each consumed whole by its production and each the
\* source of the field it became; so an input with a segment that leaves
\* characters after its production matched is rejected.
C3_AllOrNothing ==
    (Done /\ parsed.ok)
    => LET segs == SplitSlash(input) IN
       /\ Len(segs) = 5
       /\ segs[1] # <<>> /\ parsed.val.identifier = segs[1]
       /\ FullyConsumed(parse_region(segs[2]))
       /\ parsed.val.region = parse_region(segs[2]).val
       /\ FullyConsumed(parse_size(segs[3]))
       /\ parsed.val.size = parse_size(segs[3]).val
       /\ FullyConsumed(parse_rotation(segs[4]))
       /\ parsed.val.rotation = parse_rotation(segs[4]).val
       /\ FullyConsumed(parse_quality_format(segs[5]))
       /\ parsed.val.quality = parse_quality_format(segs[5]).val[1]
       /\ parsed.val.format = parse_quality_format(segs[5]).val[2]

\* text after the format token (default.jpg/x) has been rejected
C3_Witness ==
    /\ Done
    /\ probe.family = "tail" /\ probe.form = "q.f"
    /\ parse_quality_format(QualityTexts[probe.x] \o <<".">> \o FormatTexts[probe.y]).ok
    /\ probe.junk = <<"/", "x">>
    /\ ~parsed.ok

\* C4: the region text x,y,w,h parses to Absolute{x,y,w,h} with the same
\* four values exactly when w > 0 and h > 0, and fails to parse when w = 0 or
\* h = 0; every Absolute region the parser produces has w > 0 and h > 0.
C4_AbsoluteRoundTrip ==
    /\ (Done /\ probe.family = "region" /\ probe.form = "abs" /\ probe.junk = <<>>)
       => IF probe.w > 0 /\ probe.h > 0
          THEN /\ parsed.ok
               /\ parsed.val.region = RegionAbsolute(probe.x, probe.y, probe.w, probe.h)
          ELSE ~parsed.ok
    /\ (Done /\ parsed.ok /\ parsed.val.region.kind = "Absolute")
       => parsed.val.region.w > 0 /\ parsed.val.region.h > 0

\* the region text 105,0,10,2147483647 has come back as the same four values
C4_Witness ==
    /\ Done
    /\ probe.family = "region" /\ probe.form = "abs" /\ probe.junk = <<>>
    /\ probe.x = 105 /\ probe.y = 0 /\ probe.w = 10 /\ probe.h = 2147483647
    /\ parsed.ok
    /\ parsed.val.region = RegionAbsolute(105, 0, 10, 2147483647)

\* the rotation texts the grammar names, with the degrees each stands for
RotationTokens ==
    {<< <<"0">>, "Deg0" >>, << <<"9", "0">>, "Deg90" >>,
     << <<"1", "8", "0">>, "Deg180" >>, << <<"2", "7", "0">>, "Deg270" >>,
     << <<"3", "6", "0">>, "Deg0" >>}

F(n, d) == [n |-> n, d |-> d]

\* percentages an f32 holds exactly: 0, 12.5, 50, 100, 150
Pct0 == F(0, 1)
Pct12_5 == F(125, 10)
Pct50 == F(50, 1)
Pct100 == F(100, 1)
Pct150 == F(150, 1)

Images == {Img(w, h) : w \in 1..MaxDim, h \in 1..MaxDim}

Regions ==
    {RegionFull, RegionSquare}
    \cup {RegionAbsolute(x, y, w, h) : x \in {0, 2}, y \in {0, 2}, w \in {1, 3}, h \in {1, 3}}
    \cup {RegionPercent(x, Pct0, w, h) :
            x \in {Pct0, Pct50}, w \in {Pct0, Pct12_5, Pct100}, h \in {Pct50, Pct100}}

SizeKinds ==
    {KindMax, KindWidth(1), KindWidth(5), KindHeight(1), KindHeight(5),
     KindPercent(Pct0), KindPercent(Pct50), KindPercent(Pct150),
     KindWidthHeight(5, 1), KindWidthHeight(1, 5), KindWidthHeight(2, 2)}

Sizes == {MkSize(u, m, k) : u \in BOOLEAN, m \in BOOLEAN, k \in SizeKinds}

Rotations ==
    {MkRotation(d, m) : d \in {"Deg0", "Deg90", "Deg180", "Deg270"}, m \in BOOLEAN}

InitOps ==
    /\ probe = NoProbe
    /\ input = <<>>
    /\ parsed = Pending
    /\ image \in Images
    /\ req \in [region : Regions, size : Sizes, rotation : Rotations]
    /\ pipeline = Pending
    /\ LoaderIdle

\* crop, resize, rotate, then write_to; overflow checks are a choice of the build
Transform ==
    /\ req # NoReq
    /\ pipeline = Pending
    /\ \E checks \in BOOLEAN : pipeline' = get_image_transform(image, req, checks)
    /\ UNCHANGED <<probe, input, parsed, image, req, loader_vars>>

NextOps == Transform

SpecOps == InitOps /\ [][NextOps]_vars

(***************************************************************************)
(* Claims about the pipeline, checked under SpecOps.                       *)
(***************************************************************************)
Ran == pipeline # Pending

MinOf(a, b) == IF a < b THEN a ELSE b

\* C6: cropping with Region::Square extracts a square of side
\* s = min(W, H) at x = (W - s) / 2 and y = (H - s) / 2, a rectangle that
\* lies inside the image.
C6_SquareCentred ==
    (Ran /\ req.region = RegionSquare)
    => LET s == MinOf(image.w, image.h) IN
       /\ ~pipeline.crop.panic
       /\ pipeline.crop.got = Rect((image.w - s) \div 2, (image.h - s) \div 2, s, s)
       /\ pipeline.crop.img = Img(s, s)

\* a 2 x 2 image has been cropped with Square to the 1 x 1 corner at (1, 1)
C6_Witness ==
    /\ Ran
    /\ req.region = RegionSquare /\ image = Img(2, 2)
    /\ pipeline.crop.got = Rect(1, 1, 1, 1)

\* C7: an Absolute region with x + w > W or y + h > H fails the request
\* with BadRequest at the crop step; no clamped image goes on.
C7_OutOfBoundsRejected ==
    (Ran /\ req.region.kind = "Absolute"
         /\ (req.region.x + req.region.w > image.w
             \/ req.region.y + req.region.h > image.h))
    => /\ pipeline.status = "BadRequest"
       /\ pipeline.steps = <<"crop">>

\* a rectangle reaching past the image has been clamped and encoded
C7_Witness ==
    /\ Ran
    /\ image = Img(4, 4) /\ req.region = RegionAbsolute(2, 2, 3, 3)
    /\ pipeline.crop.img = Img(2, 2)
    /\ pipeline.status = "Encode"

\* the resize step ran, on the image the crop step left
Resized == Ran /\ ~pipeline.crop.panic /\ req.size # DefaultSize

\* C8: with allow_upscale = false, a target (nw, nh) with nw above the
\* current width or nh above the current height makes resize_image return
\* BadRequest; no resized or clamped image is returned.
C8_NoSilentUpscale ==
    (Resized /\ ~req.size.allow_upscale
             /\ (pipeline.resize.nw > pipeline.crop.img.w
                 \/ pipeline.resize.nh > pipeline.crop.img.h))
    => /\ ~pipeline.resize.ok
       /\ pipeline.status = "BadRequest"
       /\ pipeline.resize.img = pipeline.crop.img
       /\ pipeline.steps[Len(pipeline.steps)] = "resize"

\* a height above the image's, without the upscale flag, has been refused
C8_Witness ==
    /\ Resized
    /\ ~req.size.allow_upscale
    /\ pipeline.resize.nw <= pipeline.crop.img.w
    /\ pipeline.resize.nh > pipeline.crop.img.h
    /\ pipeline.status = "BadRequest"

\* C9: whenever the crop step (a Percent region) or the resize step
\* computes a target width or height of 0, the pipeline fails with
\* BadRequest instead of producing an image.
C9_ZeroDimensionRejected ==
    (Ran /\ ~pipeline.crop.panic
         /\ \/ /\ req.region.kind = "Percent"
               /\ (pipeline.crop.rect.w = 0 \/ pipeline.crop.rect.h = 0)
            \/ /\ req.size # DefaultSize
               /\ (pipeline.resize.nw = 0 \/ pipeline.resize.nh = 0))
    => pipeline.status = "BadRequest"

\* the size pct:0 has gone through to the encoder as a 0 x 0 image
C9_Witness ==
    /\ Ran
    /\ req.region = RegionFull /\ req.size.kind = KindPercent(Pct0)
    /\ pipeline.resize.nw = 0 /\ pipeline.resize.nh = 0
    /\ pipeline.status = "Encode"
    /\ pipeline.out.w = 0

\* the steps of s are those of order, in order's order, each at most once
RECURSIVE InOrder(_, _)
InOrder(s, order) ==
    IF s = <<>> THEN TRUE
    ELSE IF order = <<>> THEN FALSE
    ELSE IF Head(s) = Head(order) THEN InOrder(Tail(s), Tail(order))
    ELSE InOrder(s, Tail(order))

HasStep(name) == \E k \in 1..Len(pipeline.steps) : pipeline.steps[k] = name

\* C15: the transform steps run in the order crop, resize, rotate: the
\* target of resize and its upscale test come from the width and height of
\* the cropped image, rotate works on the resized image, and after a failed
\* resize there is neither a rotate nor an encode.
C15_CropResizeRotate ==
    (Ran /\ ~pipeline.crop.panic)
    => /\ InOrder(pipeline.steps, <<"crop", "resize", "rotate", "encode">>)
       /\ pipeline.crop.img = crop_image(image, req.region, FALSE).img
       /\ pipeline.resize = resize_image(pipeline.crop.img, req.size)
       /\ pipeline.resize.ok
            => /\ pipeline.status = "Encode"
               /\ pipeline.out = rotate_image(pipeline.resize.img, req.rotation)
       /\ ~pipeline.resize.ok
            => /\ pipeline.status = "BadRequest"
               /\ ~HasStep("rotate")
               /\ ~HasStep("encode")
               /\ pipeline.orientations = <<>>

\* all three steps have run, on a region that made the image narrower, and
\* the resize kept the cropped width where the loaded width would have
\* been refused
C15_Witness ==
    /\ Ran
    /\ pipeline.steps = <<"crop", "resize", "rotate", "encode">>
    /\ pipeline.crop.img.w < image.w
    /\ req.size.kind.kind = "Height"
    /\ pipeline.resize.nw = pipeline.crop.img.w
    /\ req.rotation.deg = "Deg90"
    /\ pipeline.out = Img(pipeline.resize.img.h, pipeline.resize.img.w)
    /\ pipeline.out.w # pipeline.out.h

\* C16: with allow_upscale = true and a target without a zero side,
\* resize_image returns Ok, also when only the target height or only the
\* target width is above the image's.
C16_UpscaleFlagAllows ==
    (Resized /\ req.size.allow_upscale
             /\ pipeline.resize.nw # 0 /\ pipeline.resize.nh # 0)
    => /\ pipeline.resize.ok
       /\ pipeline.status = "Encode"

\* with the upscale flag set, a target whose height alone is above the
\* image's has been refused
C16_Witness ==
    /\ Resized
    /\ req.size.allow_upscale
    /\ pipeline.resize.nw # 0
    /\ pipeline.resize.nw <= pipeline.crop.img.w
    /\ pipeline.resize.nh > pipeline.crop.img.h
    /\ ~pipeline.resize.ok
    /\ pipeline.status = "BadRequest"

(***************************************************************************)
(* The loaders as a state machine: request tasks run get_image_data        *)
(* (src/main.rs) concurrently; the process may restart, which keeps the    *)
(* cache directory and loses everything in memory.                         *)
(***************************************************************************)
InitLoader ==
    /\ probe = NoProbe
    /\ input = <<>>
    /\ parsed = Pending
    /\ image = NoImage
    /\ req = NoReq
    /\ pipeline = Pending
    /\ LoaderIdle

IdentifiersOf(prefix) ==
    CASE prefix = "proxy" -> ProxyIdentifiers
      [] prefix = "test" -> LocalIdentifiers
      [] OTHER -> {"present"}

Finished(t, status, content) ==
    [task[t] EXCEPT !.pc = "done", !.result = status, !.content = content]

\* a request arrives: get_image_data looks the prefix up and, for a known
\* prefix, starts waiting for the loader's write lock
Arrive(t) ==
    /\ task[t].pc = "idle"
    /\ requests < MaxRequests
    /\ requests' = requests + 1
    /\ \E prefix \in LoaderPrefixes \cup {"unknown"} :
         \E identifier \in IdentifiersOf(prefix) :
            task' = [task EXCEPT ![t] =
                        [IdleTask EXCEPT
                            !.pc = IF prefix \in LoaderPrefixes THEN "waiting" ELSE "done",
                            !.prefix = prefix,
                            !.identifier = identifier,
                            !.result = IF prefix \in LoaderPrefixes THEN ""
                                       ELSE "NOT_FOUND"]]
    /\ UNCHANGED <<uri_to_hash_key, cache_files, lock, restarts>>
    /\ UNCHANGED <<probe, input, parsed, image, req, pipeline>>

\* mutant: the loader is entered without waiting for its lock
Acquire_unguarded(t) ==
    /\ task[t].pc = "waiting"
    /\ lock' = [lock EXCEPT ![task[t].prefix] = t]
    /\ task' = [task EXCEPT ![t].pc = "locked"]
    /\ UNCHANGED <<uri_to_hash_key, cache_files, requests, restarts>>
    /\ UNCHANGED <<probe, input, parsed, image, req, pipeline>>

\* .write().await resolves: the task holds the loader exclusively
Acquire(t) ==
    /\ task[t].pc = "waiting"
    /\ lock[task[t].prefix] = 0
    /\ lock' = [lock EXCEPT ![task[t].prefix] = t]
    /\ task' = [task EXCEPT ![t].pc = "locked"]
    /\ UNCHANGED <<uri_to_hash_key, cache_files, requests, restarts>>
    /\ UNCHANGED <<probe, input, parsed, image, req, pipeline>>

\* LocalLoader::get_image, and the return of get_image_data (guard dropped)
LocalGetImage(t) ==
    /\ task[t].pc = "locked"
    /\ task[t].prefix = "test"
    /\ LET r == local_get_image(task[t].identifier) IN
       task' = [task EXCEPT ![t] =
                    Finished(t, IF r.ok THEN "OK" ELSE StatusOfErrorKind(r.kind),
                             r.content)]
    /\ lock' = [lock EXCEPT !["test"] = 0]
    /\ UNCHANGED <<uri_to_hash_key, cache_files, requests, restarts>>
    /\ UNCHANGED <<probe, input, parsed, image, req, pipeline>>

\* mutant: a known URI whose cache file does not open is fetched again
ProxyLookup_refetch(t) ==
    /\ task[t].pc = "locked"
    /\ task[t].prefix = "proxy"
    /\ LET uri == DecodeIdentifier(task[t].identifier) IN
       IF uri = "InvalidInput"
       THEN /\ task' = [task EXCEPT ![t] =
                            Finished(t, StatusOfErrorKind("InvalidInput"), "")]
            /\ lock' = [lock EXCEPT !["proxy"] = 0]
       ELSE IF uri_to_hash_key[uri].cached
               /\ get_from_cache(cache_files, uri_to_hash_key[uri]).some
       THEN /\ task' = [task EXCEPT ![t] =
                            [Finished(t, "OK",
                                      get_from_cache(cache_files,
                                                     uri_to_hash_key[uri]).content)
                                EXCEPT !.uri = uri, !.hit = TRUE]]
            /\ lock' = [lock EXCEPT !["proxy"] = 0]
       ELSE /\ task' = [task EXCEPT ![t].pc = "fetching", ![t].uri = uri]
            /\ lock' = lock
    /\ UNCHANGED <<uri_to_hash_key, cache_files, requests, restarts>>
    /\ UNCHANGED <<probe, input, parsed, image, req, pipeline>>

\* ProxyLoader::get_image up to its first await: the identifier is decoded
\* and the URI looked up; a known URI is served from the cache file, or is
\* NotFound without it; an unknown URI is requested from its origin
ProxyLookup(t) ==
    /\ task[t].pc = "locked"
    /\ task[t].prefix = "proxy"
    /\ LET uri == DecodeIdentifier(task[t].identifier) IN
       IF uri = "InvalidInput"
       THEN /\ task' = [task EXCEPT ![t] =
                            Finished(t, StatusOfErrorKind("InvalidInput"), "")]
            /\ lock' = [lock EXCEPT !["proxy"] = 0]
       ELSE IF uri_to_hash_key[uri].cached
       THEN LET c == get_from_cache(cache_files, uri_to_hash_key[uri]) IN
            /\ task' = [task EXCEPT ![t] =
                            [Finished(t, IF c.some THEN "OK"
                                         ELSE IF c.panic THEN StatusOfErrorKind("Panic")
                                         ELSE StatusOfErrorKind("NotFound"), c.content)
                                EXCEPT !.uri = uri, !.hit = TRUE]]
            /\ lock' = [lock EXCEPT !["proxy"] = 0]
       ELSE /\ task' = [task EXCEPT ![t].pc = "fetching", ![t].uri = uri]
            /\ lock' = lock
    /\ UNCHANGED <<uri_to_hash_key, cache_files, requests, restarts>>
    /\ UNCHANGED <<probe, input, parsed, image, req, pipeline>>

\* the outbound GET comes back: get_from_uri, then write_in_cache and the
\* return of get_image and get_image_data.  The unwrap()s of get_from_uri
\* panic on a send error (a timeout among them), an unknown format and an
\* undecodable body.  A panic drops the write guard as a return does.
ProxyFetch(t) ==
    /\ task[t].pc = "fetching"
    /\ \E outcome \in FetchOutcomes, io \in DiskOutcomes :
         LET uri == task[t].uri
             got == Remote(uri)
             w == write_in_cache(cache_files, uri_to_hash_key, got.content, uri,
                                 got.format, io)
         IN  CASE outcome = "ok" ->
                    /\ cache_files' = w.files
                    /\ uri_to_hash_key' = w.index
                    /\ task' = [task EXCEPT ![t] =
                                    [Finished(t, IF w.ok THEN "OK"
                                                 ELSE StatusOfErrorKind(w.kind),
                                              IF w.ok THEN got.content ELSE "")
                                        EXCEPT !.fetch = outcome,
                                               !.existed = (w.kind = "AlreadyExists")]]
               [] outcome = "status_not_ok" ->
                    /\ task' = [task EXCEPT ![t] =
                                    [Finished(t, StatusOfErrorKind("NotFound"), "")
                                        EXCEPT !.fetch = outcome]]
                    /\ UNCHANGED <<cache_files, uri_to_hash_key>>
               [] OTHER ->
                    /\ task' = [task EXCEPT ![t] =
                                    [Finished(t, "PANIC", "") EXCEPT !.fetch = outcome]]
                    /\ UNCHANGED <<cache_files, uri_to_hash_key>>
    /\ lock' = [lock EXCEPT !["proxy"] = 0]
    /\ UNCHANGED <<requests, restarts>>
    /\ UNCHANGED <<probe, input, parsed, image, req, pipeline>>

\* the response has gone out; the task is free for another request
Respond(t) ==
    /\ task[t].pc = "done"
    /\ task' = [task EXCEPT ![t] = IdleTask]
    /\ UNCHANGED <<uri_to_hash_key, cache_files, lock, requests, restarts>>
    /\ UNCHANGED <<probe, input, parsed, image, req, pipeline>>

\* the process restarts: main builds new loaders (ProxyLoader::new, an
\* empty uri_to_hash_key); the files of the cache directory stay
Restart ==
    /\ restarts < MaxRestarts
    /\ restarts' = restarts + 1
    /\ uri_to_hash_key' = [u \in URIs |-> NotCached]
    /\ lock' = [p \in LoaderPrefixes |-> 0]
    /\ task' = [t \in Tasks |-> IdleTask]
    /\ UNCHANGED <<cache_files, requests>>
    /\ UNCHANGED <<probe, input, parsed, image, req, pipeline>>

\* a file of the cache directory is removed from outside the process
Evict ==
    /\ \E k \in Hashes :
         /\ cache_files[k].exists
         /\ cache_files' = [cache_files EXCEPT ![k] = NoFile]
    /\ UNCHANGED <<uri_to_hash_key, lock, task, requests, restarts>>
    /\ UNCHANGED <<probe, input, parsed, image, req, pipeline>>

NextLoader ==
    \/ \E t \in Tasks :
         \/ Arrive(t)
         \/ Acquire(t)
         \/ LocalGetImage(t)
         \/ ProxyLookup(t)
         \/ ProxyFetch(t)
         \/ Respond(t)
    \/ Restart
    \/ Evict

SpecLoader == InitLoader /\ [][NextLoader]_vars

\* the same, with a cache directory that only the process touches
NextCache ==
    \/ \E t \in Tasks :
         \/ Arrive(t)
         \/ Acquire(t)
         \/ LocalGetImage(t)
         \/ ProxyLookup(t)
         \/ ProxyFetch(t)
         \/ Respond(t)
    \/ Restart

SpecCache == InitLoader /\ [][NextCache]_vars

(***************************************************************************)
(* Claims about the proxy loader, checked under SpecLoader.                *)
(***************************************************************************)
\* task t has fetched a URI that was not in uri_to_hash_key and found the
\* cache path of its decoded bytes on disk already
FetchedOntoExistingFile(t) ==
    /\ task[t].pc = "done"
    /\ task[t].prefix = "proxy"
    /\ ~task[t].hit
    /\ task[t].fetch = "ok"
    /\ task[t].existed

\* C10: when get_image fetches a URI that is not in UriIndex and the cache
\* path of its decoded bytes already exists, the call succeeds: the file is
\* left in place, URI -> (digest, format) is registered, and the decoded
\* image is returned with no error.
C10_ExistingFileIsSuccess ==
    \A t \in Tasks :
        FetchedOntoExistingFile(t)
        => LET got == Remote(task[t].uri) IN
           /\ task[t].result = "OK"
           /\ task[t].content = got.content
           /\ uri_to_hash_key[task[t].uri] = Cached(Sha256(got.content), got.format)
           /\ cache_files[Sha256(got.content)].exists

\* a fetch onto an existing cache file has ended in a server error with
\* the URI left out of uri_to_hash_key
C10_Witness ==
    \E t \in Tasks :
        /\ FetchedOntoExistingFile(t)
        /\ task[t].result = "INTERNAL_SERVER_ERROR"
        /\ ~uri_to_hash_key[task[t].uri].cached

\* task t is inside get_image of its prefix's loader
Inside(t) == task[t].pc \in {"locked", "fetching"}

\* task t is a finished call of the proxy loader
ProxyDone(t) == task[t].pc = "done" /\ task[t].prefix = "proxy"

\* task t takes a step of ProxyLoader::get_image
GetImageStep(t) ==
    /\ restarts' = restarts
    /\ task[t].prefix = "proxy"
    /\ Inside(t)
    /\ task'[t] # task[t]

\* C11: within one process lifetime, once a call for URI u has succeeded
\* through fetch-and-cache, no later call for u issues an outbound GET: it
\* only reads the cache file, and fails with NotFound when the file is
\* missing.
C11_NoRefetch ==
    [][\A t \in Tasks :
        /\ \* a fetch that succeeded leaves u known, and u stays known
           (GetImageStep(t) /\ task'[t].fetch = "ok" /\ task'[t].result = "OK")
           => uri_to_hash_key'[task[t].uri].cached
        /\ \A u \in URIs :
             (restarts' = restarts /\ uri_to_hash_key[u].cached)
             => uri_to_hash_key'[u].cached
        /\ \* a GET goes out only for a URI that is not known
           (task'[t].pc = "fetching" /\ restarts' = restarts)
           => ~uri_to_hash_key'[task'[t].uri].cached
        /\ \* the call for a known u ends at once, on the file alone
           LET u == DecodeIdentifier(task[t].identifier) IN
           (GetImageStep(t) /\ task[t].pc = "locked" /\ u \in URIs
                /\ uri_to_hash_key[u].cached)
           => /\ task'[t].pc = "done"
              /\ task'[t].hit
              /\ task'[t].fetch = ""
              /\ cache_files' = cache_files
              /\ uri_to_hash_key' = uri_to_hash_key
              /\ ~cache_files[uri_to_hash_key[u].key].exists
                   => task'[t].result = "NOT_FOUND"
              /\ task'[t].result = "OK"
                   => task'[t].content = cache_files[uri_to_hash_key[u].key].content
      ]_vars

\* a call for a known URI whose cache file is gone has ended NotFound
\* without a GET
C11_Witness ==
    \E t \in Tasks :
        /\ ProxyDone(t)
        /\ task[t].hit
        /\ task[t].fetch = ""
        /\ uri_to_hash_key[task[t].uri].cached
        /\ ~cache_files[uri_to_hash_key[task[t].uri].key].exists
        /\ task[t].result = "NOT_FOUND"

\* task t has fetched its URI and reached save_with_format
Saved(t) ==
    /\ ProxyDone(t)
    /\ task[t].fetch = "ok"
    /\ ~task[t].existed
    /\ task[t].result \in {"OK", "PANIC"}

\* C12: of two concurrent requests for the same URI through the proxy
\* loader only one fetches and writes; the one cache file is at the path of
\* its digest and holds the bytes either would write, and no request reads
\* a file that is written in part.
C12_OneWholeCacheFile ==
    /\ \A k \in Hashes :
         (cache_files[k].exists /\ cache_files[k].content # Torn)
         => Sha256(cache_files[k].content) = k
    /\ \A u \in URIs :
         uri_to_hash_key[u].cached
         => /\ uri_to_hash_key[u] = Cached(Sha256(Remote(u).content), Remote(u).format)
            /\ cache_files[uri_to_hash_key[u].key]
                 = File(Remote(u).content, Remote(u).format)
    /\ \A t \in Tasks :
         (ProxyDone(t) /\ task[t].hit)
         => /\ task[t].result = "OK"
            /\ task[t].content = Remote(task[t].uri).content
    /\ \A t1, t2 \in Tasks :
         (t1 # t2 /\ task[t1].prefix = "proxy" /\ task[t2].prefix = "proxy"
                  /\ task[t1].uri = task[t2].uri /\ task[t1].uri \in URIs)
         => /\ ~(task[t1].pc = "fetching" /\ task[t2].pc = "fetching")
            /\ ~(Saved(t1) /\ Saved(t2))

\* two requests for one URI have ended: one fetched and wrote the file, the
\* other was served the same bytes from it
C12_Witness ==
    \E t1, t2 \in Tasks :
        /\ t1 # t2
        /\ ProxyDone(t1) /\ ProxyDone(t2)
        /\ task[t1].uri = task[t2].uri
        /\ task[t1].fetch = "ok" /\ ~task[t1].existed /\ task[t1].result = "OK"
        /\ task[t2].hit /\ task[t2].result = "OK"
        /\ task[t2].content = task[t1].content
        /\ cache_files[Sha256(task[t1].content)].content = task[t1].content

\* C13: at most one request is inside get_image of a prefix's loader; the
\* lock is taken before get_image and held through fetch, decode and cache
\* write; requests to different prefixes do not wait for each other.
C13_OneInsideEachLoader ==
    /\ \A t1, t2 \in Tasks :
         (t1 # t2 /\ Inside(t1) /\ Inside(t2)) => task[t1].prefix # task[t2].prefix
    /\ \A t \in Tasks : Inside(t) <=> (task[t].prefix \in LoaderPrefixes
                                       /\ lock[task[t].prefix] = t)
    /\ \A t \in Tasks :
         (task[t].pc = "waiting" /\ lock[task[t].prefix] # 0)
         => /\ lock[task[t].prefix] # t
            /\ Inside(lock[task[t].prefix])
            /\ task[lock[task[t].prefix]].prefix = task[t].prefix

\* one request waits for the proxy loader while another, inside it, awaits
\* its outbound GET
C13_Witness ==
    \E t1, t2 \in Tasks :
        /\ task[t1].pc = "fetching"
        /\ lock["proxy"] = t1
        /\ task[t2].pc = "waiting"
        /\ task[t2].prefix = "proxy"

\* the ways the outbound fetch of get_from_uri fails
FetchFailures == {"status_not_ok", "send_error", "no_format", "bad_body"}

\* C14: every failure of the outbound fetch (a timeout, a response that is
\* not 2xx, a format that cannot be determined) makes get_image return
\* NotFound; the call never panics.
C14_FetchFailureIsNotFound ==
    \A t \in Tasks :
        (ProxyDone(t) /\ task[t].fetch \in FetchFailures)
        => task[t].result = "NOT_FOUND"

\* a request whose GET timed out has ended in a panic
C14_Witness ==
    \E t \in Tasks :
        /\ ProxyDone(t)
        /\ task[t].fetch = "send_error"
        /\ task[t].result = "PANIC"

\* C17: across calls of the proxy loader's get_image the cache only grows:
\* an existing cache file is never written over or deleted, an entry of
\* uri_to_hash_key is never changed or removed, and an entry is added only
\* once the file of its digest has been written.
C17_CacheOnlyGrows ==
    [][(\E t \in Tasks : GetImageStep(t))
       => /\ \A k \in Hashes :
               cache_files[k].exists => cache_files'[k] = cache_files[k]
          /\ \A u \in URIs :
               /\ uri_to_hash_key[u].cached => uri_to_hash_key'[u] = uri_to_hash_key[u]
               /\ (~uri_to_hash_key[u].cached /\ uri_to_hash_key'[u].cached)
                  => /\ cache_files'[uri_to_hash_key'[u].key].exists
                     /\ cache_files'[uri_to_hash_key'[u].key].content # Torn
                     /\ Sha256(cache_files'[uri_to_hash_key'[u].key].content)
                          = uri_to_hash_key'[u].key
                     /\ cache_files'[uri_to_hash_key'[u].key].format
                          = uri_to_hash_key'[u].format
      ]_vars

\* a second URI with the pixels of a cached one was fetched in another
\* format; the file and the entry of the first are as they were
C17_Witness ==
    \E t \in Tasks :
        /\ ProxyDone(t)
        /\ task[t].fetch = "ok"
        /\ task[t].existed
        /\ \E u \in URIs \ {task[t].uri} :
             /\ uri_to_hash_key[u] = Cached(Sha256(Remote(u).content), Remote(u).format)
             /\ Remote(u).content = Remote(task[t].uri).content
             /\ Remote(u).format # Remote(task[t].uri).format
             /\ cache_files[uri_to_hash_key[u].key]
                  = File(Remote(u).content, Remote(u).format)

====
